---- MODULE Spec2Model ----
(***************************************************************************)
(* The post-migration of schema version 42 (pkg/sqlite/migrations/         *)
(* 42_postmigrate.go): the alias pass (migrate), the disambiguation pass   *)
(* (migrateDuplicatePerformers) and the schema finalization                *)
(* (executeSchemaChanges), as post42 runs them.                            *)
(*                                                                         *)
(* A string is a sequence of one-character strings, so that splitting,     *)
(* trimming, the text ordering of SQLite and strconv's conversions are     *)
(* computed character by character.                                        *)
(***************************************************************************)
EXTENDS Integers, Sequences, FiniteSets, TLC

\* ------------------------------------------------------------------ bounds

\* Longest raw alias string of SpecSplit.
MaxRawLen == 4
\* Most rows of performer_aliases at the start (SpecAlias, Spec).
MaxAliasRows == 2
\* Most performers at the start of SpecDup and Spec.
MaxPerformers == 4
\* Most performers at the start of SpecNull (all disambiguations null).
MaxGroup == 12
\* Largest page size tried; the program's own is 1000 (const limit).
MaxLimit == 2
\* How often post42 is started in SpecRerun.
MaxRuns == 2
\* Most rows of performer_aliases at the start of SpecRerun.
MaxRerunRows == 3
\* Most performers at the start of SpecLive.
MaxLivePerformers == 3

\* ----------------------------------------------------------------- strings

\* The byte of a character: SQLite's BINARY collation and Go compare by it.
Code(c) ==
  CASE c = "\t" -> 9  [] c = " " -> 32 [] c = "+" -> 43 [] c = "," -> 44
    [] c = "-" -> 45  [] c = "/" -> 47
    [] c = "0" -> 48  [] c = "1" -> 49 [] c = "2" -> 50 [] c = "3" -> 51
    [] c = "4" -> 52  [] c = "5" -> 53 [] c = "6" -> 54 [] c = "7" -> 55
    [] c = "8" -> 56  [] c = "9" -> 57
    [] c = "a" -> 97  [] c = "b" -> 98 [] c = "x" -> 120

\* SQLite's comparison of two TEXT values (BINARY collation: memcmp, then
\* the shorter first), as ORDER BY disambiguation uses it.
RECURSIVE StrLess(_, _)
StrLess(a, b) ==
  IF a = <<>> THEN b # <<>>
  ELSE IF b = <<>> THEN FALSE
  ELSE IF Code(Head(a)) # Code(Head(b)) THEN Code(Head(a)) < Code(Head(b))
  ELSE StrLess(Tail(a), Tail(b))

\* sql.NullString
NullString == [Valid |-> FALSE, String |-> <<>>]
ValidString(s) == [Valid |-> TRUE, String |-> s]

IsDigit(c) == Code(c) \in 48..57

RECURSIVE DigitsValue(_, _)
DigitsValue(s, acc) ==
  IF s = <<>> THEN acc
  ELSE DigitsValue(Tail(s), acc * 10 + (Code(Head(s)) - 48))

\* Atoi, were every string read as a number (0 for what is none).
AtoiWithoutError(s) == [ok |-> TRUE, n |-> 0]

\* strconv.Atoi: an optional sign, then one or more decimal digits; anything
\* else is an error.  (The 64-bit range is out of reach of the strings of
\* the model.)
Atoi(s) ==
  LET signed == s # <<>> /\ Head(s) \in {"+", "-"}
      digits == IF signed THEN Tail(s) ELSE s
      ok     == digits # <<>> /\ \A i \in DOMAIN digits : IsDigit(digits[i])
  IN  IF ~ok THEN [ok |-> FALSE, n |-> 0]
      ELSE [ok |-> TRUE,
            n  |-> IF signed /\ Head(s) = "-" THEN 0 - DigitsValue(digits, 0)
                   ELSE DigitsValue(digits, 0)]

DigitChar(d) == <<"0", "1", "2", "3", "4", "5", "6", "7", "8", "9">>[d + 1]

\* strconv.Itoa
RECURSIVE Itoa(_)
Itoa(n) ==
  IF n < 0 THEN <<"-">> \o Itoa(0 - n)
  ELSE IF n < 10 THEN <<DigitChar(n)>>
  ELSE Itoa(n \div 10) \o <<DigitChar(n % 10)>>

\* IsDelimiter, were the split on ',' alone.
IsDelimiterCommaOnly(c) == c = ","

\* The split predicate of migratePerformerAliases: strings.ContainsRune(",/", r)
IsDelimiter(c) == c \in {",", "/"}

\* strings.FieldsFunc(s, f): the maximal runs of characters that do not
\* satisfy f, in order; empty runs are not fields.
RECURSIVE FieldsFrom(_, _, _)
FieldsFrom(s, cur, out) ==
  IF s = <<>> THEN (IF cur = <<>> THEN out ELSE Append(out, cur))
  ELSE IF IsDelimiter(Head(s))
       THEN FieldsFrom(Tail(s), <<>>, IF cur = <<>> THEN out ELSE Append(out, cur))
       ELSE FieldsFrom(Tail(s), Append(cur, Head(s)), out)

FieldsFunc(s) == FieldsFrom(s, <<>>, <<>>)

\* unicode.IsSpace, on the characters of the model
IsSpace(c) == c \in {" ", "\t"}

RECURSIVE TrimLeft(_)
TrimLeft(s) ==
  IF s # <<>> /\ IsSpace(Head(s)) THEN TrimLeft(Tail(s)) ELSE s

RECURSIVE TrimRight(_)
TrimRight(s) ==
  IF s # <<>> /\ IsSpace(s[Len(s)]) THEN TrimRight(SubSeq(s, 1, Len(s) - 1)) ELSE s

\* strings.TrimSpace
TrimSpace(s) == TrimRight(TrimLeft(s))

TrimAll(list) == [i \in DOMAIN list |-> TrimSpace(list[i])]

Includes(vs, v) == \E i \in DOMAIN vs : vs[i] = v

\* stringslice.StrAppendUniques(vs, toAdd): appends each element of toAdd
\* that vs does not hold yet.
RECURSIVE StrAppendUniques(_, _)
StrAppendUniques(vs, toAdd) ==
  IF toAdd = <<>> THEN vs
  ELSE StrAppendUniques(IF Includes(vs, Head(toAdd)) THEN vs
                        ELSE Append(vs, Head(toAdd)),
                        Tail(toAdd))

Min(a, b) == IF a < b THEN a ELSE b

\* ------------------------------------------------------------------ state

VARIABLES
  performers,         \* table performers: id (= rowid) -> [name, disambiguation]
  performer_aliases,  \* table performer_aliases: its rows, in rowid order
  limit,              \* const limit of migrate and migrateDuplicatePerformers
  stage,              \* where post42 is: the call it is in, or "done"
  pc,                 \* where the pass is: "idle" (top of its for loop) or
                      \* "applying" (inside the function given to withTxn)
  rows,               \* the rows the open result set has yet to return
  lastID,             \* migrate's lastID
  gotSome,            \* gotSome of the running pass
  count,              \* count of the running pass
  err,                \* "nil", or the error post42 has returned
  indexes,            \* the unique indexes executeSchemaChanges has created
  txBegin,            \* both tables as they were when withTxn began
  runs,               \* how many times post42 has been started
  performers0,        \* history: performers when post42 started
  aliases0,           \* history: performer_aliases when post42 started
  lastCall,           \* history: the last call of migratePerformerAliases
  updates,            \* history: the calls of migrateDuplicatePerformer
  fetched,            \* history: the rows migrate's query has returned
  boundary,           \* history: lastID when the page at hand was fetched
  outcomes            \* history: the tables earlier runs from the same start ended with

vars == <<performers, performer_aliases, limit, stage, pc, rows, lastID,
          gotSome, count, err, indexes, txBegin, runs, performers0, aliases0,
          lastCall, updates, fetched, boundary, outcomes>>

\* ------------------------------------------------------- performer_aliases

AliasRow(id, alias) == [performer_id |-> id, alias |-> alias]

\* AliasMatches, were the condition performer_id >= lastID.
AliasMatchesFromLastID(t, last) ==
  {i \in DOMAIN t : last = 0 \/ t[i].performer_id >= last}

\* The rows a query over performer_aliases matches:
\*   [WHERE performer_id > lastID]      (only when lastID != 0)
AliasMatches(t, last) ==
  {i \in DOMAIN t : last = 0 \/ t[i].performer_id > last}

\* Every order of the matching rows that ORDER BY performer_id allows: rows
\* of one performer_id come in an order SQL leaves open.
RECURSIVE AliasOrders(_, _)
AliasOrders(t, S) ==
  IF S = {} THEN {<<>>}
  ELSE LET least == {i \in S : \A j \in S : t[i].performer_id <= t[j].performer_id}
       IN  UNION {{<<t[i]>> \o rest : rest \in AliasOrders(t, S \ {i})} : i \in least}

\* SELECT performer_id, alias FROM performer_aliases [WHERE performer_id > lastID]
\*   ORDER BY performer_id LIMIT limit
\* : the result sets the query may return.
AliasQuery(t, last, lim) ==
  {SubSeq(o, 1, Min(lim, Len(o))) : o \in AliasOrders(t, AliasMatches(t, last))}

\* DeleteAliases, were the DELETE without its WHERE.
DeleteEveryAlias(t, id) == <<>>

\* DELETE FROM performer_aliases WHERE performer_id = ?
DeleteAliases(t, id) == SelectSeq(t, LAMBDA r : r.performer_id # id)

\* InsertAliases, were the rows inserted for the performer of the next id.
InsertAliasesElsewhere(t, id, list) ==
  t \o [k \in DOMAIN list |-> AliasRow(id + 1, list[k])]

\* INSERT INTO performer_aliases (performer_id, alias) VALUES (?, ?), once
\* for each alias of the list, in order
RECURSIVE InsertAliases(_, _, _)
InsertAliases(t, id, list) ==
  IF list = <<>> THEN t
  ELSE InsertAliases(Append(t, AliasRow(id, Head(list))), id, Tail(list))

\* The aliases migratePerformerAliases inserts: the fields, trimmed, each once.
NewAliases(aliases) == StrAppendUniques(<<>>, TrimAll(FieldsFunc(aliases)))

\* if len(aliasList) < 2 { return nil }
ExistingValueIsFine(aliasList) == Len(aliasList) < 2

\* How many statements migratePerformerAliases(id, aliases) issues when
\* none fails: none, or the DELETE and one INSERT for each new alias.
AliasStatements(aliases) ==
  IF ExistingValueIsFine(FieldsFunc(aliases)) THEN 0
  ELSE 1 + Len(NewAliases(aliases))

\* migratePerformerAliases(id, aliases) on table t.  fault = 0: no statement
\* fails; fault = k: the k-th statement it issues returns an error (and has
\* no effect).  Gives the table it leaves and the error it returns.
MigratePerformerAliases(t, id, aliases, fault) ==
  IF ExistingValueIsFine(FieldsFunc(aliases)) THEN [table |-> t, err |-> "nil"]
  ELSE IF fault = 1 THEN [table |-> t, err |-> "storage"]
  ELSE LET new      == NewAliases(aliases)
           inserted == IF fault = 0 THEN Len(new) ELSE Min(fault - 2, Len(new))
       IN  [table |-> InsertAliases(DeleteAliases(t, id), id, SubSeq(new, 1, inserted)),
            err   |-> IF fault = 0 \/ fault > 1 + Len(new) THEN "nil" ELSE "storage"]

\* ------------------------------------------------------------- transactions

\* The handle the statements of both passes are issued on: m.db (the
\* connection pool), not the tx that withTxn hands to the function.
StatementHandle == "db"

\* withTxn's rollback: it undoes the statements that were issued on tx;
\* a statement issued on m.db was committed when it returned.
Rollback(now, atBegin) == IF StatementHandle = "tx" THEN atBegin ELSE now

Tables == [performers |-> performers, performer_aliases |-> performer_aliases]

\* -------------------------------------------------------------- performers

Performer(name, dis) == [name |-> name, disambiguation |-> dis]

\* The elements of a set of integers, ascending.
RECURSIVE Ascending(_)
Ascending(S) ==
  IF S = {} THEN <<>>
  ELSE LET m == CHOOSE x \in S : \A y \in S : x <= y
       IN  <<m>> \o Ascending(S \ {m})

\* DuplicateMatches, were the query without "disambiguation IS NULL".
DuplicateMatchesOfAnyValue(p) ==
  {i \in DOMAIN p : \E j \in DOMAIN p : p[i].name = p[j].name /\ i > j}

\* SELECT id, name FROM performers WHERE performers.disambiguation IS NULL
\*   AND EXISTS (SELECT 1 FROM performers p2
\*               WHERE performers.name = p2.name AND performers.rowid > p2.rowid)
DuplicateMatches(p) ==
  {i \in DOMAIN p :
     /\ ~p[i].disambiguation.Valid
     /\ \E j \in DOMAIN p : p[i].name = p[j].name /\ i > j}

\* DuplicateQuery, were the order ORDER BY id DESC.
DuplicateQueryDescending(p, lim) ==
  LET ids == Ascending(DuplicateMatches(p))
  IN  [k \in 1..Min(lim, Len(ids)) |->
         [id |-> ids[Len(ids) + 1 - k], name |-> p[ids[Len(ids) + 1 - k]].name]]

\*   ... ORDER BY id LIMIT limit
DuplicateQuery(p, lim) ==
  LET ids == Ascending(DuplicateMatches(p))
  IN  [k \in 1..Min(lim, Len(ids)) |-> [id |-> ids[k], name |-> p[ids[k]].name]]

\* SELECT disambiguation FROM performers WHERE name = ?
\*   ORDER BY disambiguation DESC LIMIT 1
\* : the first row of the descending order.  The column is TEXT, so the order
\* is that of StrLess; NULL sorts below every value and so comes last.
HighestDisambiguation(p, name) ==
  LET named == {i \in DOMAIN p : p[i].name = name}
      valid == {i \in named : p[i].disambiguation.Valid}
  IN  IF valid = {} THEN NullString
      ELSE LET top == CHOOSE i \in valid : \A j \in valid :
                        ~StrLess(p[i].disambiguation.String, p[j].disambiguation.String)
           IN  p[top].disambiguation

\* UPDATE performers SET disambiguation = ? WHERE id = ?
UpdateDisambiguation(p, id, value) ==
  [i \in DOMAIN p |-> IF i = id THEN Performer(p[i].name, ValidString(value)) ELSE p[i]]

\* migrateDuplicatePerformer(performerID, name) on table p.  fault = 0: no
\* statement fails; 1: the SELECT fails; 2: the UPDATE fails.  Gives the
\* table it leaves, the error it returns and the value it computed.
MigrateDuplicatePerformer(p, performerID, name, fault) ==
  LET disambiguation == HighestDisambiguation(p, name)
      numericDis     == Atoi(disambiguation.String)
      newDisambiguation ==
        IF disambiguation.Valid THEN numericDis.n + 1 ELSE 1
      value          == Itoa(newDisambiguation)
  IN  IF fault = 1
        THEN [table |-> p, err |-> "storage", value |-> NullString]
      ELSE IF \A i \in DOMAIN p : p[i].name # name
        THEN [table |-> p, err |-> "sql.ErrNoRows", value |-> NullString]
      ELSE IF disambiguation.Valid /\ ~numericDis.ok
        THEN [table |-> p, err |-> "strconv", value |-> NullString]
      ELSE IF fault = 2
        THEN [table |-> p, err |-> "storage", value |-> ValidString(value)]
      ELSE [table |-> UpdateDisambiguation(p, performerID, value),
            err   |-> "nil", value |-> ValidString(value)]

\* SameNameAndDisambiguation, were the index not UNIQUE.
SameNameAndDisambiguationAllowed(p) == FALSE

\* Two performers with one name and one non-null disambiguation: what
\*   CREATE UNIQUE INDEX performers_name_disambiguation_unique
\*     on performers (name, disambiguation) WHERE disambiguation IS NOT NULL
\* refuses.
SameNameAndDisambiguation(p) ==
  \E i, j \in DOMAIN p :
    /\ i # j /\ p[i].name = p[j].name
    /\ p[i].disambiguation.Valid /\ p[j].disambiguation.Valid
    /\ p[i].disambiguation.String = p[j].disambiguation.String

\* Two performers with one name and null disambiguations: what
\*   CREATE UNIQUE INDEX performers_name_unique
\*     on performers (name) WHERE disambiguation IS NULL
\* refuses.
SameNameBothNull(p) ==
  \E i, j \in DOMAIN p :
    /\ i # j /\ p[i].name = p[j].name
    /\ ~p[i].disambiguation.Valid /\ ~p[j].disambiguation.Valid

\* AliasPassIsOver, were the loop without its break.
AliasPassIsNeverOver(got) == FALSE

\* if !gotSome { break }    (migrate)
AliasPassIsOver(got) == ~got

\* DuplicatePassIsOver, were the loop to end after its first page.
DuplicatePassIsOverAtOnce(got) == TRUE

\* if !gotSome { break }    (migrateDuplicatePerformers)
DuplicatePassIsOver(got) == ~got

\* Failed, were the returned errors not looked at.
FailedNever(e) == FALSE

\* if err != nil { return ... }: the callee has returned an error, and the
\* caller returns it (post42 wraps it with fmt.Errorf's %w).
Failed(e) == e # "nil"

\* Following, were post42 without its call of migrateDuplicatePerformers.
FollowingWithoutDuplicatePass(s) ==
  IF s = "migrate" THEN "executeSchemaChanges" ELSE "done"

\* post42: the call that follows call s when s has returned nil; after the
\* last one post42 returns nil.
Following(s) ==
  CASE s = "migrate" -> "migrateDuplicatePerformers"
    [] s = "migrateDuplicatePerformers" -> "executeSchemaChanges"
    [] s = "executeSchemaChanges" -> "done"

\* ---------------------------------------------------------------- actions

NoCall == [id |-> 0, aliases |-> <<>>, before |-> <<>>, err |-> "nil"]

\* The function given to withTxn has returned an error: withTxn rolls the
\* transaction back, the pass and post42 return the error.
Abort(e, p, a) ==
  /\ err' = e
  /\ performers' = Rollback(p, txBegin.performers)
  /\ performer_aliases' = Rollback(a, txBegin.performer_aliases)
  /\ rows' = <<>>

\* migrate, from the top of its loop: withTxn begins a transaction and the
\* function runs its query.  fault = 1: BeginTxx or Query returns an error.
AliasFetch ==
  /\ stage = "migrate" /\ pc = "idle" /\ ~Failed(err)
  /\ \E fault \in 0..1 :
       IF fault = 1
       THEN /\ err' = "storage"
            /\ txBegin' = Tables
            /\ UNCHANGED <<performers, performer_aliases, rows, pc, gotSome>>
       ELSE /\ \E page \in AliasQuery(performer_aliases, lastID, limit) : rows' = page
            /\ pc' = "applying"
            /\ gotSome' = FALSE
            /\ txBegin' = Tables
            /\ UNCHANGED <<performers, performer_aliases, err>>
  /\ boundary' = lastID
  /\ UNCHANGED <<limit, stage, lastID, count, indexes, runs, performers0,
                 aliases0, lastCall, updates, fetched, outcomes>>

\* migrate, one turn of "for rows.Next()": the row is scanned, lastID,
\* gotSome and count are set, and migratePerformerAliases runs on it.
AliasNext ==
  /\ stage = "migrate" /\ pc = "applying" /\ ~Failed(err) /\ rows # <<>>
  /\ LET r == Head(rows)
     IN  \E fault \in 0..AliasStatements(r.alias) :
           LET res == MigratePerformerAliases(performer_aliases, r.performer_id,
                                              r.alias, fault)
           IN  /\ lastID' = r.performer_id
               /\ gotSome' = TRUE
               /\ count' = count + 1
               /\ fetched' = Append(fetched, r)
               /\ lastCall' = [id |-> r.performer_id, aliases |-> r.alias,
                               before |-> performer_aliases, err |-> res.err]
               /\ IF res.err = "nil"
                  THEN /\ performer_aliases' = res.table
                       /\ rows' = Tail(rows)
                       /\ UNCHANGED <<performers, err>>
                  ELSE Abort(res.err, performers, res.table)
  /\ UNCHANGED <<limit, stage, pc, indexes, txBegin, runs, performers0,
                 aliases0, updates, boundary, outcomes>>

\* migrate, after the last row of the page: the function returns rows.Err(),
\* withTxn commits, and the loop ends if the page was empty.  fault = 1:
\* rows.Err() or Commit returns an error.
AliasEnd ==
  /\ stage = "migrate" /\ pc = "applying" /\ ~Failed(err) /\ rows = <<>>
  /\ \E fault \in 0..1 :
       IF fault = 1
       THEN /\ Abort("storage", performers, performer_aliases)
            /\ UNCHANGED <<stage, pc, count>>
       ELSE /\ pc' = "idle"
            /\ stage' = IF AliasPassIsOver(gotSome) THEN Following(stage) ELSE stage
            /\ count' = IF AliasPassIsOver(gotSome) THEN 0 ELSE count
            /\ UNCHANGED <<performers, performer_aliases, rows, err>>
  /\ UNCHANGED <<limit, lastID, gotSome, indexes, txBegin, runs, performers0,
                 aliases0, lastCall, updates, fetched, boundary, outcomes>>

\* migrateDuplicatePerformers, from the top of its loop: withTxn begins a
\* transaction and the function runs its query.
DuplicateFetch ==
  /\ stage = "migrateDuplicatePerformers" /\ pc = "idle" /\ ~Failed(err)
  /\ \E fault \in 0..1 :
       IF fault = 1
       THEN /\ err' = "storage"
            /\ txBegin' = Tables
            /\ UNCHANGED <<rows, pc, gotSome>>
       ELSE /\ rows' = DuplicateQuery(performers, limit)
            /\ pc' = "applying"
            /\ gotSome' = FALSE
            /\ txBegin' = Tables
            /\ UNCHANGED err
  /\ UNCHANGED <<performers, performer_aliases, limit, stage, lastID, count,
                 indexes, runs, performers0, aliases0, lastCall, updates, fetched,
                 boundary, outcomes>>

\* migrateDuplicatePerformers, one turn of "for rows.Next()": gotSome and
\* count are set and migrateDuplicatePerformer runs on the row.
DuplicateNext ==
  /\ stage = "migrateDuplicatePerformers" /\ pc = "applying" /\ ~Failed(err)
  /\ rows # <<>>
  /\ LET r == Head(rows)
     IN  \E fault \in 0..2 :
           LET res == MigrateDuplicatePerformer(performers, r.id, r.name, fault)
           IN  /\ gotSome' = TRUE
               /\ count' = count + 1
               /\ updates' = Append(updates,
                    [id |-> r.id, name |-> r.name, err |-> res.err,
                     value |-> res.value,
                     taken |-> \E i \in DOMAIN performers :
                                 /\ performers[i].name = r.name
                                 /\ performers[i].disambiguation = res.value])
               /\ IF res.err = "nil"
                  THEN /\ performers' = res.table
                       /\ rows' = Tail(rows)
                       /\ UNCHANGED <<performer_aliases, err>>
                  ELSE Abort(res.err, res.table, performer_aliases)
  /\ UNCHANGED <<limit, stage, pc, lastID, indexes, txBegin, runs, performers0,
                 aliases0, lastCall, fetched, boundary, outcomes>>

\* migrateDuplicatePerformers, after the last row of the page.
DuplicateEnd ==
  /\ stage = "migrateDuplicatePerformers" /\ pc = "applying" /\ ~Failed(err)
  /\ rows = <<>>
  /\ \E fault \in 0..1 :
       IF fault = 1
       THEN /\ Abort("storage", performers, performer_aliases)
            /\ UNCHANGED <<stage, pc>>
       ELSE /\ pc' = "idle"
            /\ stage' = IF DuplicatePassIsOver(gotSome) THEN Following(stage) ELSE stage
            /\ UNCHANGED <<performers, performer_aliases, rows, err>>
  /\ UNCHANGED <<limit, lastID, gotSome, count, indexes, txBegin, runs,
                 performers0, aliases0, lastCall, updates, fetched, boundary,
                 outcomes>>

\* execAll: the statements one after the other, until one returns an error.
\* fault = k: the k-th statement fails in the storage layer.
ExecAll(p, made, fault) ==
  LET first  == /\ fault # 1
                /\ "performers_name_disambiguation_unique" \notin made
                /\ ~SameNameAndDisambiguation(p)
      second == /\ fault # 2
                /\ "performers_name_unique" \notin made
                /\ ~SameNameBothNull(p)
  IN  IF ~first THEN [indexes |-> made,
                      err |-> IF fault = 1 THEN "storage" ELSE "constraint"]
      ELSE IF ~second
        THEN [indexes |-> made \cup {"performers_name_disambiguation_unique"},
              err |-> IF fault = 2 THEN "storage" ELSE "constraint"]
      ELSE [indexes |-> made \cup {"performers_name_disambiguation_unique",
                                   "performers_name_unique"},
            err |-> "nil"]

\* executeSchemaChanges, and post42's return after it.
ExecuteSchemaChanges ==
  /\ stage = "executeSchemaChanges" /\ ~Failed(err)
  /\ \E fault \in 0..2 :
       LET res == ExecAll(performers, indexes, fault)
       IN  /\ indexes' = res.indexes
           /\ err' = res.err
           /\ stage' = IF res.err = "nil" THEN Following(stage) ELSE stage
  /\ UNCHANGED <<performers, performer_aliases, limit, pc, rows, lastID,
                 gotSome, count, txBegin, runs, performers0, aliases0,
                 lastCall, updates, fetched, boundary, outcomes>>

\* post42 has returned an error and is started again on the database it
\* left (the operator reruns the upgrade).  runs keeps the stage each
\* earlier run ended in.
Rerun ==
  /\ err # "nil"
  /\ Len(runs) + 1 < MaxRuns
  /\ runs' = Append(runs, stage)
  /\ stage' = "migrate" /\ pc' = "idle" /\ rows' = <<>>
  /\ lastID' = 0 /\ gotSome' = FALSE /\ count' = 0 /\ err' = "nil"
  /\ txBegin' = Tables
  /\ performers0' = performers
  /\ aliases0' = performer_aliases
  /\ lastCall' = NoCall
  /\ updates' = <<>>
  /\ fetched' = <<>>
  /\ boundary' = 0
  /\ UNCHANGED <<performers, performer_aliases, limit, indexes, outcomes>>

\* post42 has returned nil and is called once more on a database equal to
\* the one the run started on, with a page size of its own.  outcomes keeps
\* the tables the run ended with.
Again ==
  /\ stage = "done" /\ ~Failed(err)
  /\ Len(outcomes) + 1 < MaxRuns
  /\ outcomes' = Append(outcomes, Tables)
  /\ \E l \in 1..MaxLimit : limit' = l
  /\ performers' = performers0
  /\ performer_aliases' = aliases0
  /\ indexes' = {}
  /\ stage' = "migrate" /\ pc' = "idle" /\ rows' = <<>>
  /\ lastID' = 0 /\ gotSome' = FALSE /\ count' = 0
  /\ txBegin' = [performers |-> performers0, performer_aliases |-> aliases0]
  /\ lastCall' = NoCall
  /\ updates' = <<>>
  /\ fetched' = <<>>
  /\ boundary' = 0
  /\ UNCHANGED <<err, runs, performers0, aliases0>>

Next ==
  \/ AliasFetch
  \/ AliasNext
  \/ AliasEnd
  \/ DuplicateFetch
  \/ DuplicateNext
  \/ DuplicateEnd
  \/ ExecuteSchemaChanges

NextRerun == Next \/ Rerun

NextTwice == Next \/ Again

\* ------------------------------------------------------------ initial states

\* post42 is called on performers table p and performer_aliases table a,
\* with page size l.
Start(p, a, l) ==
  /\ performers = p /\ performer_aliases = a /\ limit = l
  /\ stage = "migrate" /\ pc = "idle" /\ rows = <<>>
  /\ lastID = 0 /\ gotSome = FALSE /\ count = 0 /\ err = "nil"
  /\ indexes = {}
  /\ txBegin = [performers |-> p, performer_aliases |-> a]
  /\ runs = <<>>
  /\ performers0 = p /\ aliases0 = a
  /\ lastCall = NoCall /\ updates = <<>> /\ fetched = <<>> /\ boundary = 0
  /\ outcomes = <<>>

\* The sequences over S of length at most n.
SeqUpTo(S, n) == UNION {[1..k -> S] : k \in 0..n}

Alphabet == {"a", "b", ",", "/", " "}

\* Raw alias strings of the tables of InitAlias: one alias, two, the same
\* twice, a lone alias beside a delimiter, a piece of white space.
RawAliases ==
  {<<"a">>, <<"b">>, <<"a", ",", "b">>, <<"a", "/", "a">>, <<",", "a">>,
   <<"a", ",", " ">>}

Names == {"A", "B"}

Disambiguations == {NullString, ValidString(<<"9">>), ValidString(<<"x">>)}

TwoOfOneName == <<Performer("A", NullString), Performer("A", NullString)>>

OneAliasRow == <<AliasRow(1, <<"a", ",", "b">>)>>

\* One performer's raw alias string, every string over Alphabet up to
\* MaxRawLen, alone in the table or beside other rows.
InitSplit ==
  \E raw \in SeqUpTo(Alphabet, MaxRawLen) \ {<<>>}, others \in BOOLEAN,
     l \in 1..MaxLimit :
    Start(TwoOfOneName,
          IF others
          THEN <<AliasRow(1, <<"b">>), AliasRow(1, raw), AliasRow(2, <<"a">>)>>
          ELSE <<AliasRow(1, raw)>>,
          l)

\* Every alias table of up to MaxAliasRows rows of performers 1 and 2.
InitAlias ==
  \E a \in SeqUpTo({AliasRow(id, raw) : id \in 1..2, raw \in RawAliases}, MaxAliasRows),
     l \in 1..MaxLimit :
    Start(TwoOfOneName, a, l)

\* Every performers table of up to MaxPerformers performers.
InitDup ==
  \E p \in SeqUpTo({Performer(n, d) : n \in Names, d \in Disambiguations}, MaxPerformers),
     l \in 1..MaxLimit :
    Start(p, OneAliasRow, l)

\* Performers tables of up to MaxGroup performers whose disambiguations are
\* all null: all of one name, but for any of the first three.
InitNull ==
  \E n \in 1..MaxGroup, others \in SUBSET (1..3), l \in 1..MaxLimit :
    Start([i \in 1..n |-> Performer(IF i \in others THEN "B" ELSE "A", NullString)],
          OneAliasRow, l)

\* Alias tables of up to MaxRerunRows rows, for the runs of SpecRerun.
InitRerun ==
  \E a \in SeqUpTo({AliasRow(id, raw) : id \in 1..2,
                      raw \in {<<"a">>, <<"a", ",", "b">>, <<"a", "/", "a">>}},
                    MaxRerunRows),
     l \in 1..MaxLimit :
    Start(TwoOfOneName, a, l)

\* Databases for the runs of SpecLive: alias tables of up to MaxAliasRows
\* rows of two performers, and up to MaxLivePerformers performers of one
\* name with no disambiguation.
InitLive ==
  \E a \in SeqUpTo({AliasRow(1, <<"a", ",", "b">>), AliasRow(2, <<"a">>)}, MaxAliasRows),
     n \in 1..MaxLivePerformers, l \in 1..MaxLimit :
    Start([i \in 1..n |-> Performer("A", NullString)], a, l)

Init == InitAlias \/ InitDup

Spec == Init /\ [][Next]_vars
SpecSplit == InitSplit /\ [][Next]_vars
SpecAlias == InitAlias /\ [][Next]_vars
SpecDup == InitDup /\ [][Next]_vars
SpecNull == InitNull /\ [][Next]_vars
SpecRerun == InitRerun /\ [][NextRerun]_vars

SpecTwice == InitAlias /\ [][NextTwice]_vars

\* post42 runs on one goroutine and every call it makes returns: a step
\* that can be taken is taken.
SpecLive == InitLive /\ [][Next]_vars /\ WF_vars(Next)

\* ----------------------------------------------------------------- claims

\* Both passes have returned without error.
PassesReturned == stage \in {"executeSchemaChanges", "done"}

\* post42 has returned, after both passes returned without error.
Returned == PassesReturned /\ (stage = "done" \/ err # "nil")

AllNullAtStart == \A i \in DOMAIN performers0 : ~performers0[i].disambiguation.Valid

SameName(p, i) == {j \in DOMAIN p : p[j].name = p[i].name}

\* C1: once post42 has run both passes and its finalization on a performers
\* table whose disambiguations were all null, no two performers have the
\* same name and the same non-null disambiguation, however many share a name.
C1_NoSharedDisambiguation ==
  (Returned /\ AllNullAtStart) => ~SameNameAndDisambiguation(performers)

\* C2: when migrateDuplicatePerformers has returned without error, no two
\* performers of one name have a null disambiguation, and every performer
\* that had a null disambiguation and a same-name performer of smaller id
\* has a non-null one.
C2_OneNullPerName ==
  PassesReturned =>
    /\ ~SameNameBothNull(performers)
    /\ \A i \in DOMAIN performers0 :
         (/\ ~performers0[i].disambiguation.Valid
          /\ \E j \in SameName(performers0, i) : j < i)
         => performers[i].disambiguation.Valid

\* C2's case: the pass has returned without error after more pages than one,
\* having given a disambiguation to two performers that had none.
C2_Witness ==
  /\ PassesReturned
  /\ Len(updates) > limit
  /\ Cardinality({i \in DOMAIN performers0 :
                    /\ ~performers0[i].disambiguation.Valid
                    /\ performers[i].disambiguation.Valid}) >= 2

\* C3: after the disambiguation pass on performers whose disambiguations were
\* all null, the performers of one name hold, in ascending id order, null,
\* "1", "2", ..., "k-1".
C3_GapFreeSequence ==
  (PassesReturned /\ AllNullAtStart) =>
    \A i \in DOMAIN performers :
      LET rank == Cardinality({j \in SameName(performers, i) : j < i})
      IN  performers[i].disambiguation =
            IF rank = 0 THEN NullString ELSE ValidString(Itoa(rank))

\* The decimal string of a positive integer.
IsPositiveDecimal(str) ==
  /\ str # <<>>
  /\ \A k \in DOMAIN str : str[k] \in {"0", "1", "2", "3", "4", "5", "6", "7", "8", "9"}
  /\ str[1] # "0"

\* C4: in the disambiguation pass the performer of smallest id of each name
\* is never updated, and every value the pass assigns is the decimal string
\* of a positive integer that no performer of that name holds at the moment
\* it is assigned.
C4_FreshPositiveValue ==
  AllNullAtStart =>
    \A k \in DOMAIN updates :
      /\ \E j \in SameName(performers0, updates[k].id) : j < updates[k].id
      /\ updates[k].err = "nil" =>
           /\ IsPositiveDecimal(updates[k].value.String)
           /\ ~updates[k].taken

\* The pieces of a raw alias string, stated on its positions: a piece is a
\* run of characters other than ',' and '/' that no such character extends.
PieceSpans(raw) ==
  {sp \in (DOMAIN raw) \X (DOMAIN raw) :
     /\ sp[1] <= sp[2]
     /\ \A k \in sp[1]..sp[2] : raw[k] \notin {",", "/"}
     /\ sp[1] = 1 \/ raw[sp[1] - 1] \in {",", "/"}
     /\ sp[2] = Len(raw) \/ raw[sp[2] + 1] \in {",", "/"}}

Pieces(raw) ==
  LET starts == Ascending({sp[1] : sp \in PieceSpans(raw)})
  IN  [k \in DOMAIN starts |->
         LET sp == CHOOSE x \in PieceSpans(raw) : x[1] = starts[k]
         IN  SubSeq(raw, sp[1], sp[2])]

\* A piece without its surrounding white space.
Stripped(piece) ==
  LET ink == {k \in DOMAIN piece : piece[k] \notin {" ", "\t"}}
  IN  IF ink = {} THEN <<>>
      ELSE SubSeq(piece, CHOOSE k \in ink : \A m \in ink : k <= m,
                         CHOOSE k \in ink : \A m \in ink : k >= m)

StrippedPieces(raw) == [k \in DOMAIN Pieces(raw) |-> Stripped(Pieces(raw)[k])]

FirstAt(list, v) ==
  CHOOSE k \in DOMAIN list : list[k] = v /\ \A m \in 1..(k - 1) : list[m] # v

\* stored holds each value of list once, in the order of first occurrence.
KeepsFirstOccurrences(stored, list) ==
  /\ \A a, b \in DOMAIN stored : a # b => stored[a] # stored[b]
  /\ {stored[a] : a \in DOMAIN stored} = {list[k] : k \in DOMAIN list}
  /\ \A a, b \in DOMAIN stored :
       a < b => FirstAt(list, stored[a]) < FirstAt(list, stored[b])

\* The alias values of a performer's rows, in rowid order.
AliasesOf(t, id) ==
  LET own == SelectSeq(t, LAMBDA r : r.performer_id = id)
  IN  [k \in DOMAIN own |-> own[k].alias]

HasDelimiter(str) == \E k \in DOMAIN str : str[k] \in {",", "/"}

\* migratePerformerAliases has been called and has returned nil.
Called == lastCall.id # 0 /\ lastCall.err = "nil"

\* C5: after migratePerformerAliases(id, raw) on a raw string of two or more
\* pieces, the alias rows of performer id are the pieces without their
\* surrounding white space, each once, in the order of first occurrence, and
\* none holds ',' or '/'.
C5_RowsAreThePieces ==
  (Called /\ Len(Pieces(lastCall.aliases)) >= 2) =>
    LET stored == AliasesOf(performer_aliases, lastCall.id)
    IN  /\ KeepsFirstOccurrences(stored, StrippedPieces(lastCall.aliases))
        /\ \A k \in DOMAIN stored : ~HasDelimiter(stored[k])

\* C5's case: a call on a raw string of two or more pieces has replaced the
\* rows of a performer that had several, storing fewer aliases than pieces.
C5_Witness ==
  /\ Called
  /\ Len(Pieces(lastCall.aliases)) >= 2
  /\ Len(AliasesOf(lastCall.before, lastCall.id)) >= 2
  /\ Len(AliasesOf(performer_aliases, lastCall.id)) < Len(Pieces(lastCall.aliases))

\* C6: migratePerformerAliases leaves the alias rows as they are when fewer
\* than two pieces of the raw string are non-empty after trimming.
C6_NoOpBelowTwoPieces ==
  (/\ Called
   /\ Cardinality({k \in DOMAIN Pieces(lastCall.aliases) :
                     StrippedPieces(lastCall.aliases)[k] # <<>>}) < 2)
  => performer_aliases = lastCall.before

\* C7: a run of migrate on the table that a completed run of migrate left
\* changes no alias row.
C7_SecondRunChangesNothing ==
  (runs # <<>> /\ runs[Len(runs)] # "migrate") => performer_aliases = aliases0

\* C8: after the alias pass no row of performer_aliases holds ',' or '/'.
C8_NoDelimiterLeft ==
  stage # "migrate" =>
    \A k \in DOMAIN performer_aliases : ~HasDelimiter(performer_aliases[k].alias)

\* Two rows of table t of one performer with one alias value.
EqualRows(t) ==
  {pair \in (DOMAIN t) \X (DOMAIN t) : pair[1] # pair[2] /\ t[pair[1]] = t[pair[2]]}

\* C9: after the alias pass no performer has two alias rows with the same
\* alias value.
C9_NoEqualRows == stage # "migrate" => EqualRows(performer_aliases) = {}

\* What the pass does keep: it adds no such pair.  After it, two alias rows
\* of one performer are equal only if two rows were at the start.
AliasPassAddsNoEqualRows ==
  stage # "migrate" =>
    \A pair \in EqualRows(performer_aliases) :
      \E old \in EqualRows(aliases0) : aliases0[old[1]] = performer_aliases[pair[1]]

\* C10: when a pass has returned an error, both tables are as they were when
\* the transaction of the failed page began.
C10_AbortedPageLeavesNothing ==
  (err # "nil" /\ stage \in {"migrate", "migrateDuplicatePerformers"})
  => Tables = txBegin

\* A pass has returned an error: the migration has aborted in a page.
AbortedInPass == err # "nil" /\ stage \in {"migrate", "migrateDuplicatePerformers"}

\* C11: when the migration aborts in page n of a pass, what the pages before
\* it and the passes before it wrote is still in the database.  In the alias
\* pass: the rows of every performer the earlier pages went through (ids up
\* to the boundary of page n) and the performers table are as page n-1 left
\* them.  In the disambiguation pass: the alias rows and every
\* disambiguation that was set when page n began are as they were then.
C11_AbortKeepsCommittedPages ==
  AbortedInPass =>
    IF stage = "migrate"
    THEN /\ performers = txBegin.performers
         /\ \A id \in 1..boundary :
              AliasesOf(performer_aliases, id) = AliasesOf(txBegin.performer_aliases, id)
    ELSE /\ performer_aliases = txBegin.performer_aliases
         /\ DOMAIN performers = DOMAIN txBegin.performers
         /\ \A i \in DOMAIN performers :
              txBegin.performers[i].disambiguation.Valid
              => performers[i] = txBegin.performers[i]

\* C11's case: the alias pass has aborted in a later page than the first,
\* after the earlier pages had changed rows and the failed page had too.
C11_Witness ==
  /\ AbortedInPass /\ stage = "migrate"
  /\ boundary > 0
  /\ txBegin.performer_aliases # aliases0
  /\ performer_aliases # txBegin.performer_aliases

\* C12: the stages run in the order migrate, migrateDuplicatePerformers,
\* executeSchemaChanges, done.  post42 moves from a stage to the next one
\* only, and only when the stage has returned without error; rows of the
\* alias table are fetched in the first stage only, migrateDuplicatePerformer
\* is called in the second only, and indexes are made in the third only.
C12_StagesInOrder ==
  [][/\ stage' # stage =>
         /\ <<stage, stage'>> \in {<<"migrate", "migrateDuplicatePerformers">>,
                                   <<"migrateDuplicatePerformers", "executeSchemaChanges">>,
                                   <<"executeSchemaChanges", "done">>}
         /\ err = "nil" /\ err' = "nil"
         /\ stage \in {"migrate", "migrateDuplicatePerformers"}
            => (pc = "applying" /\ rows = <<>> /\ ~gotSome)
     /\ fetched' # fetched => stage = "migrate"
     /\ updates' # updates => stage = "migrateDuplicatePerformers"
     /\ indexes' # indexes => stage = "executeSchemaChanges"]_vars

\* C12's case: post42 has gone through all stages, each having done work.
C12_Witness ==
  /\ stage = "done"
  /\ fetched # <<>> /\ performer_aliases # aliases0
  /\ updates # <<>> /\ performers # performers0
  /\ Cardinality(indexes) = 2

\* C13: an abort is terminal.  Once post42 has an error to return, nothing
\* changes any more: no page is fetched, no row is written, no stage is
\* entered, and the error stays the one that was returned.  The step that
\* brings the error leaves post42 in the stage that failed.
C13_AbortIsTerminal ==
  [][/\ err = "nil"
     /\ err' # "nil" => stage' = stage]_vars

\* C13's case: the alias pass has aborted with rows it has not fetched yet
\* and with performers the disambiguation pass would have updated.
C13_Witness ==
  /\ err # "nil" /\ stage = "migrate"
  /\ AliasMatches(performer_aliases, lastID) # {}
  /\ lastID > 0
  /\ DuplicateMatches(performers) # {}

\* How many rows of list are equal to v.
Occurrences(list, v) == Cardinality({k \in DOMAIN list : list[k] = v})

\* C14: when the alias pass has returned without error, its queries have
\* returned every row that performer_aliases held at the start exactly once.
C14_EachRowFetchedOnce ==
  stage # "migrate" =>
    \A k \in DOMAIN aliases0 :
      Occurrences(fetched, aliases0[k]) = Occurrences(aliases0, aliases0[k])

\* What the cursor does keep: no row is returned more often than the table
\* held it at the start.
NoRowFetchedTwice ==
  \A k \in DOMAIN fetched :
    Occurrences(fetched, fetched[k]) <= Occurrences(aliases0, fetched[k])

\* Two performers of table p have the same name and the same disambiguation,
\* null or not.
HoldsDuplicate(p) == \E i, j \in DOMAIN p : i # j /\ p[i] = p[j]

\* C15: when executeSchemaChanges runs on a performers table that holds two
\* performers of one name and one disambiguation (or both null), post42
\* returns an error and both tables stay as the passes left them.
C15_FinalizationFailsOnDuplicates ==
  [][(stage = "executeSchemaChanges" /\ HoldsDuplicate(performers)) =>
       /\ err' # "nil"
       /\ stage' = stage
       /\ performers' = performers
       /\ performer_aliases' = performer_aliases]_vars

\* C15's case: executeSchemaChanges has failed on such a table, after both
\* passes had written to their tables.
C15_Witness ==
  /\ stage = "executeSchemaChanges" /\ err = "constraint"
  /\ HoldsDuplicate(performers)
  /\ performers # performers0
  /\ performer_aliases # aliases0

\* C16: migrateDuplicatePerformer is called on performers in strictly
\* ascending id order, over all pages of the disambiguation pass.
C16_CallsInAscendingIdOrder ==
  \A j, k \in DOMAIN updates : j < k => updates[j].id < updates[k].id

\* C16's case: the pass has called it on two performers of one page and on
\* one of a later page.
C16_Witness ==
  /\ limit = 2
  /\ Len(updates) >= 3
  /\ PassesReturned

\* The non-null disambiguation values of the performers of table p with the
\* given name.
ValuesOf(p, name) ==
  {p[i].disambiguation.String :
     i \in {j \in DOMAIN p : p[j].name = name /\ p[j].disambiguation.Valid}}

\* The largest of a non-empty set of integers.
Largest(S) == CHOOSE x \in S : \A y \in S : y <= x

\* C17: a call migrateDuplicatePerformer(id, name) that returns nil has set
\* the disambiguation of performer id to the decimal string of m+1, m being
\* the numerically largest of the non-null disambiguation values of the
\* performers of that name, or to "1" when there is no such value.
C17_NextAfterNumericMaximum ==
  [][(/\ updates' # updates
      /\ updates'[Len(updates')].err = "nil"
      /\ \A v \in ValuesOf(performers, Head(rows).name) : Atoi(v).ok)
     => LET r      == Head(rows)
            values == ValuesOf(performers, r.name)
            m      == Largest({Atoi(v).n : v \in values})
        IN  performers'[r.id].disambiguation =
              ValidString(IF values = {} THEN <<"1">> ELSE Itoa(m + 1))]_vars

\* The text of an integer: an optional sign and one or more decimal digits.
IsIntegerText(str) ==
  LET digits == IF str # <<>> /\ str[1] \in {"+", "-"} THEN Tail(str) ELSE str
  IN  /\ digits # <<>>
      /\ \A k \in DOMAIN digits :
           digits[k] \in {"0", "1", "2", "3", "4", "5", "6", "7", "8", "9"}

\* C18: a call of migrateDuplicatePerformer whose SELECT finds a value that
\* is not the text of an integer returns an error and updates nothing: the
\* performers table is as before, the performer of the call still has a null
\* disambiguation, and the migration has aborted in the disambiguation pass.
C18_UnparseableMaximumAborts ==
  [][(/\ updates' # updates
      /\ HighestDisambiguation(performers, Head(rows).name).Valid
      /\ ~IsIntegerText(HighestDisambiguation(performers, Head(rows).name).String))
     => /\ err' # "nil"
        /\ performers' = performers
        /\ ~performers'[Head(rows).id].disambiguation.Valid
        /\ stage' = stage]_vars

\* C18's case: the pass has aborted on such a value, after a call on a
\* performer of another name had gone through.
C18_Witness ==
  /\ err = "strconv" /\ stage = "migrateDuplicatePerformers"
  /\ Len(updates) >= 2
  /\ updates[Len(updates)].err = "strconv"
  /\ ~performers[updates[Len(updates)].id].disambiguation.Valid
  /\ performers # performers0

\* C19: the pages of the alias pass.  A page as fetched holds at most limit
\* rows, all of a performer_id above lastID, in ascending performer_id
\* order.  When a page that held rows is through, lastID is the largest
\* performer_id fetched so far and is above the boundary the page was
\* fetched with, and the pass goes on; it ends with the first page that
\* held no row.
C19_PagesFollowTheCursor ==
  [][/\ (stage = "migrate" /\ pc = "idle" /\ pc' = "applying") =>
         /\ Len(rows') <= limit
         /\ \A k \in DOMAIN rows' : rows'[k].performer_id > lastID
         /\ \A j, k \in DOMAIN rows' :
              j < k => rows'[j].performer_id <= rows'[k].performer_id
     /\ (stage = "migrate" /\ pc = "applying" /\ pc' = "idle") =>
         IF gotSome
         THEN /\ lastID = Largest({fetched[k].performer_id : k \in DOMAIN fetched})
              /\ lastID > boundary
              /\ stage' = "migrate"
         ELSE /\ lastID = boundary
              /\ stage' # "migrate"]_vars

\* C19's case: the pass has ended after two pages that held rows and one
\* that held none.
C19_Witness ==
  /\ stage = "migrateDuplicatePerformers"
  /\ limit = 1
  /\ Len(fetched) = 2
  /\ lastID = 2 /\ boundary = 2

\* C20: post42 terminates.  Every run of it on a finite database comes to
\* its return, with nil after the alias pass and the disambiguation pass
\* have each reached a page without rows, or with the first error.
C20_Terminates == <>(stage = "done" \/ err # "nil")

\* C20's case: post42 has returned nil after both passes took more pages
\* than one.
C20_Witness ==
  /\ stage = "done" /\ err = "nil"
  /\ Len(fetched) > limit
  /\ Len(updates) > limit

\* Why the passes end, in a form finite runs decide: a page that held rows
\* leaves fewer rows ahead of the cursor (alias pass), fewer matches of the
\* query (disambiguation pass), than there were when it was fetched.
EveryPageMakesHeadway ==
  [][(pc = "applying" /\ pc' = "idle" /\ gotSome) =>
       IF stage = "migrate"
       THEN Cardinality(AliasMatches(performer_aliases, lastID))
              < Cardinality(AliasMatches(txBegin.performer_aliases, boundary))
       ELSE Cardinality(DuplicateMatches(performers))
              < Cardinality(DuplicateMatches(txBegin.performers))]_vars

\* The rows of table t of the performers other than id, in rowid order.
RowsOfOthers(t, id) == SelectSeq(t, LAMBDA r : r.performer_id # id)

\* C21: the passes write disjoint data.  A step of the alias pass leaves the
\* performers table as it is and changes alias rows of no performer but the
\* one whose row is being processed; a step of the disambiguation pass
\* leaves the alias table as it is and changes no performer's id or name.
C21_PassesWriteDisjointData ==
  [][/\ stage = "migrate" =>
         /\ performers' = performers
         /\ IF fetched' # fetched
            THEN RowsOfOthers(performer_aliases', Head(rows).performer_id)
                   = RowsOfOthers(performer_aliases, Head(rows).performer_id)
            ELSE performer_aliases' = performer_aliases
     /\ stage = "migrateDuplicatePerformers" =>
         /\ performer_aliases' = performer_aliases
         /\ DOMAIN performers' = DOMAIN performers
         /\ \A i \in DOMAIN performers : performers'[i].name = performers[i].name]_vars

\* C21's case: both passes have written, the alias pass to the rows of one
\* performer while another performer had rows too.
C21_Witness ==
  /\ PassesReturned
  /\ performers # performers0
  /\ performer_aliases # aliases0
  /\ \E id \in 1..2 :
       /\ AliasesOf(aliases0, id) # <<>>
       /\ AliasesOf(performer_aliases, id) = AliasesOf(aliases0, id)

\* C22: the alias pass never stores an empty alias.  No table of the start
\* holds one, so no row of performer_aliases is ever the empty string.
C22_NoEmptyAlias ==
  \A k \in DOMAIN performer_aliases : performer_aliases[k].alias # <<>>

\* C23: the alias pass loses no alias.  When it has returned without error,
\* every non-empty trimmed piece of every row a performer had at the start
\* is the alias of a row of that performer.
C23_NoAliasLost ==
  stage # "migrate" =>
    \A k \in DOMAIN aliases0 :
      LET pieces == StrippedPieces(aliases0[k].alias)
      IN  \A n \in DOMAIN pieces :
            pieces[n] # <<>> =>
              \E j \in DOMAIN performer_aliases :
                performer_aliases[j] = AliasRow(aliases0[k].performer_id, pieces[n])

\* C24: in the disambiguation pass a disambiguation changes only from null
\* to a value.  A step leaves every performer that has a value as it is,
\* and no performer is the subject of two successful calls.
C24_OnlyFromNullAndOnce ==
  [][stage = "migrateDuplicatePerformers" =>
       /\ \A i \in DOMAIN performers :
            \/ performers'[i] = performers[i]
            \/ /\ ~performers[i].disambiguation.Valid
               /\ performers'[i].disambiguation.Valid
       /\ \A j, k \in DOMAIN updates' :
            (j # k /\ updates'[j].err = "nil" /\ updates'[k].err = "nil")
            => updates'[j].id # updates'[k].id]_vars

\* C24's case: the pass has returned after updating two performers of a
\* name of which another performer had a value from the start, and has it
\* still.
C24_Witness ==
  /\ PassesReturned
  /\ Len(updates) >= 2
  /\ updates[1].name = updates[2].name
  /\ \E i \in DOMAIN performers0 :
       /\ performers0[i].name = updates[1].name
       /\ performers0[i].disambiguation.Valid
       /\ performers[i] = performers0[i]

\* C25: the migration is deterministic.  A run of post42 that returns nil
\* ends with the tables that every earlier such run from the same
\* performers and performer_aliases ended with, whatever the page sizes.
C25_SameFinalTables ==
  (stage = "done" /\ ~Failed(err)) =>
    \A k \in DOMAIN outcomes : outcomes[k] = Tables

====
